---- MODULE Spec2Model ----
(***************************************************************************)
(* The preprocessing pipeline of notebooks/02_data_cleaning_preprocessing  *)
(* as a state machine: one action per statement of the notebook's code     *)
(* cells (load, drop, target encoding, categorical encoding, split, the    *)
(* two scaling statements, the four to_csv writes).                        *)
(*                                                                         *)
(* A column name is a sequence of tokens, " " being a whitespace token, so *)
(* that str.strip() is a computation and not the identity.  A scaled value *)
(* (x - mean) / std is kept exactly as the pair num / sqrt(den2).  The     *)
(* library's random generator is a small congruential generator seeded by  *)
(* random_state: what the pipeline relies on is that the stream is a       *)
(* function of the seed, not the particular stream.                        *)
(***************************************************************************)
EXTENDS Integers, Sequences, FiniteSets, TLC

\* ------------------------------------------------------------------ bounds

\* rows of the raw table
MaxRows == 6
\* rows of one target class in the class-count study of the stratified split
MaxClassCount == 21

\* --------------------------------------------------- constants of the code

CLIENTNUM == "CLIENTNUM"
NB_1 == "Naive_Bayes_Classifier_Attrition_Flag_Card_Category_Contacts_Count_12_mon_Dependent_count_Education_Level_Months_Inactive_12_mon_1"
NB_2 == "Naive_Bayes_Classifier_Attrition_Flag_Card_Category_Contacts_Count_12_mon_Dependent_count_Education_Level_Months_Inactive_12_mon_2"
Attrition_Flag == "Attrition_Flag"
AttritedCustomer == "Attrited Customer"

\* df.drop(columns=[...]): the labels, as stripped names
drop_columns == << <<CLIENTNUM>>, <<NB_1>>, <<NB_2>> >>

\* test_size=0.2 as the fraction test_size_num / test_size_den
test_size_num == 1
test_size_den == 5
random_state == 42

\* the recorded reference run: 10,127 rows, 8,500 negative and 1,627 positive
ReferenceNegative == 8500
ReferencePositive == 1627

\* ----------------------------------------------------------------- helpers

Range(s) == {s[i] : i \in DOMAIN s}

Min(a, b) == IF a <= b THEN a ELSE b

RECURSIVE SumSeq(_)
SumSeq(s) == IF s = <<>> THEN 0 ELSE Head(s) + SumSeq(Tail(s))

SetMax(S) == CHOOSE m \in S : \A x \in S : x <= m

\* the elements of a finite set of integers, largest first
RECURSIVE SortedDesc(_)
SortedDesc(S) ==
    IF S = {} THEN <<>> ELSE <<SetMax(S)>> \o SortedDesc(S \ {SetMax(S)})

\* the positions of flags that hold TRUE, in ascending order
RECURSIVE PositionsFrom(_, _)
PositionsFrom(flags, i) ==
    IF i > Len(flags) THEN <<>>
    ELSE (IF flags[i] THEN <<i>> ELSE <<>>) \o PositionsFrom(flags, i + 1)

Positions(flags) == PositionsFrom(flags, 1)

Take(s, idx) == [k \in 1..Len(idx) |-> s[idx[k]]]

Iota(n) == [k \in 1..n |-> k]

\* --------------------------------------------------------- column names

Whitespace == " "

\* str.strip(): leading and trailing whitespace removed, inner kept
RECURSIVE LStrip(_)
LStrip(name) ==
    IF name # <<>> /\ Head(name) = Whitespace THEN LStrip(Tail(name)) ELSE name

RECURSIVE RStrip(_)
RStrip(name) ==
    IF name # <<>> /\ name[Len(name)] = Whitespace
    THEN RStrip(SubSeq(name, 1, Len(name) - 1))
    ELSE name

Strip(name) == RStrip(LStrip(name))

\* ------------------------------------------------------------- the frames

NoFrame == [columns |-> <<>>, dtypes |-> <<>>, index |-> <<>>, data |-> <<>>]
NoSeries == [name |-> <<>>, index |-> <<>>, values |-> <<>>]

ColumnPositions(frame, name) ==
    Positions([j \in 1..Len(frame.columns) |-> frame.columns[j] = name])

\* the frame with only the columns at the positions keep (in that order)
SelectColumns(frame, keep) ==
    [columns |-> Take(frame.columns, keep),
     dtypes  |-> Take(frame.dtypes, keep),
     index   |-> frame.index,
     data    |-> [r \in 1..Len(frame.data) |-> Take(frame.data[r], keep)]]

\* frame.iloc[rows]: the rows at the positions rows, index labels kept
ILocFrame(frame, rows) ==
    [frame EXCEPT !.index = Take(frame.index, rows),
                  !.data = Take(frame.data, rows)]

\* series.iloc[sorted(rows)]: the rows taken in the order of the table
ILocSeriesInTableOrder(series, rows) ==
    [series EXCEPT
        !.index = Take(series.index,
                       Positions([r \in 1..Len(series.values) |-> r \in Range(rows)])),
        !.values = Take(series.values,
                       Positions([r \in 1..Len(series.values) |-> r \in Range(rows)]))]

ILocSeries(series, rows) ==
    [series EXCEPT !.index = Take(series.index, rows),
                   !.values = Take(series.values, rows)]

Column(frame, j) == [r \in 1..Len(frame.data) |-> frame.data[r][j]]

\* ------------------------------------------------ the random generator

\* np.random.RandomState(seed): the generator's state after seeding
RandomState(seed) == (seed % 32748) + 1

\* one bounded draw: a value in 0..max and the generator's next state
RkInterval(max, s) ==
    LET s2 == (219 * s) % 32749
    IN  [val |-> (s2 \div 8) % (max + 1), rng |-> s2]

\* rng.shuffle: for i = n-1 down to 1, swap x[i] with x[j], j drawn in 0..i
RECURSIVE Shuffle(_, _, _)
Shuffle(x, i, s) ==
    IF i <= 1 THEN [val |-> x, rng |-> s]
    ELSE LET d == RkInterval(i - 1, s)
             j == d.val + 1
         IN  Shuffle([x EXCEPT ![i] = x[j], ![j] = x[i]], i - 1, d.rng)

\* rng.permutation(x): a shuffled copy of x
Permutation(x, s) == Shuffle(x, Len(x), s)

\* ------------------------------------------- the stratified train/test split

\* the test size rounded down instead of up
NTestFloor(n_samples) == (n_samples * test_size_num) \div test_size_den

\* _validate_shuffle_split: n_test = ceil(test_size * n_samples)
NTest(n_samples) ==
    (n_samples * test_size_num + test_size_den - 1) \div test_size_den

\* train_size=None: the complement of the test partition
NTrain(n_samples) == n_samples - NTest(n_samples)

\* np.unique(y): the sorted distinct classes of a 0/1 vector
Classes(values) ==
    (IF 0 \in Range(values) THEN <<0>> ELSE <<>>)
        \o (IF 1 \in Range(values) THEN <<1>> ELSE <<>>)

\* np.bincount(y_indices): the number of rows of each class
ClassCounts(values) ==
    LET cls == Classes(values)
    IN  [i \in 1..Len(cls) |->
            Cardinality({r \in 1..Len(values) : values[r] = cls[i]})]

\* the ValueErrors of train_test_split / StratifiedShuffleSplit for these counts
SplitValueError(class_counts) ==
    LET n == SumSeq(class_counts)
    IN  \/ n = 0
        \/ NTrain(n) = 0
        \/ \E i \in 1..Len(class_counts) : class_counts[i] < 2
        \/ NTrain(n) < Len(class_counts)
        \/ NTest(n) < Len(class_counts)

\* the loop of _approximate_mode over the distinct remainders, largest first:
\* the classes holding the remainder get the draws left, rng.choice picking
\* which of them when there are more classes than draws
RECURSIVE AddByRemainder(_, _, _, _, _)
AddByRemainder(floored, remainder, need_to_add, values, s) ==
    IF need_to_add = 0 \/ values = <<>> THEN [val |-> floored, rng |-> s]
    ELSE LET inds == Positions([i \in 1..Len(remainder) |->
                                    remainder[i] = Head(values)])
             add_now == Min(Len(inds), need_to_add)
             p == Permutation(inds, s)
             chosen == {p.val[k] : k \in 1..add_now}
         IN  AddByRemainder(
                 [i \in 1..Len(floored) |->
                     IF i \in chosen THEN floored[i] + 1 ELSE floored[i]],
                 remainder, need_to_add - add_now, Tail(values), p.rng)

\* _approximate_mode(class_counts, n_draws, rng): n_draws rows allotted to the
\* classes in proportion to class_counts, the remainders exact (as fractions
\* of the total)
ApproximateMode(class_counts, n_draws, s) ==
    LET total == SumSeq(class_counts)
        floored == [i \in 1..Len(class_counts) |->
                        (class_counts[i] * n_draws) \div total]
        remainder == [i \in 1..Len(class_counts) |->
                        (class_counts[i] * n_draws) % total]
        need_to_add == n_draws - SumSeq(floored)
    IN  AddByRemainder(floored, remainder, need_to_add,
                       SortedDesc(Range(remainder)), s)

\* a split without stratify=y, whose test rows happen to be the first rows
\* in class order
AllocationUnstratified(class_counts, s) ==
    LET n == SumSeq(class_counts)
        before(i) == SumSeq(SubSeq(class_counts, 1, i - 1))
        ti == [i \in 1..Len(class_counts) |->
                  Min(class_counts[i],
                      IF NTest(n) > before(i) THEN NTest(n) - before(i) ELSE 0)]
    IN  [n_i |-> [i \in 1..Len(class_counts) |-> class_counts[i] - ti[i]],
         t_i |-> ti, rng |-> s]

\* n_i with t_i: the rows of each class that go to train and to test, and
\* the generator after both allotments
BothAllocations(ni, ti) == [n_i |-> ni.val, t_i |-> ti.val, rng |-> ti.rng]

\* t_i = _approximate_mode(class_counts - n_i, n_test, rng), given n_i
TestAllocation(class_counts, ni) ==
    BothAllocations(ni,
        ApproximateMode(
            [i \in 1..Len(class_counts) |-> class_counts[i] - ni.val[i]],
            NTest(SumSeq(class_counts)), ni.rng))

\* n_i = _approximate_mode(class_counts, n_train, rng), then t_i, in
\* StratifiedShuffleSplit._iter_indices
Allocation(class_counts, s) ==
    TestAllocation(class_counts,
        ApproximateMode(class_counts, NTrain(SumSeq(class_counts)), s))

\* the per-class loop of _iter_indices: each class's rows permuted, the first
\* n_i[i] to train and the next t_i[i] to test
RECURSIVE PerClass(_, _, _, _, _, _)
PerClass(values, cls, alloc, i, acc, s) ==
    IF i > Len(cls) THEN [train |-> acc.train, test |-> acc.test, rng |-> s]
    ELSE LET p == Permutation(
                      Positions([r \in 1..Len(values) |-> values[r] = cls[i]]), s)
         IN  PerClass(values, cls, alloc, i + 1,
                 [train |-> acc.train \o SubSeq(p.val, 1, alloc.n_i[i]),
                  test  |-> acc.test \o SubSeq(p.val, alloc.n_i[i] + 1,
                                               alloc.n_i[i] + alloc.t_i[i])],
                 p.rng)

\* test = rng.permutation(test), after train was permuted
PermutedTest(per, tr) ==
    [train |-> tr.val, test |-> Permutation(per.test, tr.rng).val]

\* train = rng.permutation(train); test = rng.permutation(test)
PermutedBoth(per) == PermutedTest(per, Permutation(per.train, per.rng))

\* the train and test row positions for an allotment
SplitBy(values, alloc) ==
    PermutedBoth(PerClass(values, Classes(values), alloc, 1,
                          [train |-> <<>>, test |-> <<>>], alloc.rng))

\* StratifiedShuffleSplit(test_size, random_state).split(X, y): the row
\* positions of the train and of the test partition
StratifiedSplit(values, seed) ==
    SplitBy(values, Allocation(ClassCounts(values), RandomState(seed)))

\* both arguments indexed by the same train and test row positions
IndexedBy(features, target, sp) ==
    [X_train |-> ILocFrame(features, sp.train),
     X_test  |-> ILocFrame(features, sp.test),
     y_train |-> ILocSeries(target, sp.train),
     y_test  |-> ILocSeries(target, sp.test)]

\* a split that keeps every row in the train partition
train_test_split_keeping_all(features, target, seed) ==
    [IndexedBy(features, target, StratifiedSplit(target.values, seed))
        EXCEPT !.X_train = features, !.y_train = target]

\* train_test_split(X, y, test_size=0.2, stratify=y, random_state=seed)
train_test_split(features, target, seed) ==
    IndexedBy(features, target, StratifiedSplit(target.values, seed))

\* random_state left unset: the seed differs from run to run
SeedsFromEntropy == {random_state, random_state + 1, random_state + 2}

\* random_state=42: the seeds the split may be given
Seeds == {random_state}

\* ------------------------------------------------------ target encoding

\* the rule keyed on the negative literal instead
TargetRuleOnExisting(x) == IF x = "Existing Customer" THEN 0 ELSE 1

\* lambda x: 1 if x == "Attrited Customer" else 0
TargetRule(x) == IF x = AttritedCustomer THEN 1 ELSE 0

\* df["Attrition_Flag"].apply(...): the column at position j mapped, now int64
ApplyTarget(frame, j) ==
    [frame EXCEPT
        !.dtypes = [@ EXCEPT ![j] = "int64"],
        !.data = [r \in 1..Len(frame.data) |->
                    [frame.data[r] EXCEPT ![j] = TargetRule(frame.data[r][j])]]]

\* -------------------------------------------------- categorical encoding

\* the strings of the categorical columns in Python's (code point) order
StringOrder == <<"Blue", "F", "Gold", "M", "Silver">>

StrRank(v) == CHOOSE i \in 1..Len(StringOrder) : StringOrder[i] = v

StrMin(S) == CHOOSE m \in S : \A x \in S : StrRank(m) <= StrRank(x)

\* sorted(set(values))
RECURSIVE SortedStrings(_)
SortedStrings(S) ==
    IF S = {} THEN <<>> ELSE <<StrMin(S)>> \o SortedStrings(S \ {StrMin(S)})

\* a fit that adds to the classes the encoder already holds
FitClassesAccumulating(encoder, values) ==
    SortedStrings(Range(encoder) \cup Range(values))

\* LabelEncoder.fit: classes_ are the sorted distinct values of this column,
\* whatever the encoder held before
FitClasses(encoder, values) == SortedStrings(Range(values))

\* LabelEncoder.transform: each value's position in classes_, from 0
Codes(classes, values) ==
    [r \in 1..Len(values) |->
        (CHOOSE i \in 1..Len(classes) : classes[i] = values[r]) - 1]

\* for col in categorical_cols: df[col] = le.fit_transform(df[col])
RECURSIVE EncodeColumns(_, _, _)
EncodeColumns(frame, cols, encoder) ==
    IF cols = <<>> THEN [df |-> frame, le |-> encoder]
    ELSE LET j == Head(cols)
             classes == FitClasses(encoder, Column(frame, j))
             codes == Codes(classes, Column(frame, j))
         IN  EncodeColumns(
                 [frame EXCEPT
                     !.dtypes = [@ EXCEPT ![j] = "int64"],
                     !.data = [r \in 1..Len(frame.data) |->
                                 [frame.data[r] EXCEPT ![j] = codes[r]]]],
                 Tail(cols), classes)

\* select_dtypes(include=...).columns: the positions of the columns of a dtype
SelectDtypes(frame, include) ==
    Positions([j \in 1..Len(frame.dtypes) |-> frame.dtypes[j] \in include])

\* ------------------------------------------------------- numeric scaling

Unfitted == [n |-> 0, sum |-> <<>>, sumsq |-> <<>>]

\* StandardScaler.fit on the columns cols of frame: per column the number of
\* rows, the sum and the sum of squares (mean_ = sum / n, var_ = sumsq / n -
\* mean_^2)
Fit(frame, cols) ==
    [n     |-> Len(frame.data),
     sum   |-> [k \in 1..Len(cols) |-> SumSeq(Column(frame, cols[k]))],
     sumsq |-> [k \in 1..Len(cols) |->
                   SumSeq([r \in 1..Len(frame.data) |->
                       frame.data[r][cols[k]] * frame.data[r][cols[k]]])]]

\* (x - mean_) / scale_ as num / sqrt(den2); a zero variance gives scale_ = 1
ScaleValue(sc, k, x) ==
    LET radicand == sc.n * sc.sumsq[k] - sc.sum[k] * sc.sum[k]
    IN  [num  |-> sc.n * x - sc.sum[k],
         den2 |-> IF radicand = 0 THEN sc.n * sc.n ELSE radicand]

\* frame[cols] = scaler.transform(frame[cols])
Transform(sc, frame, cols) ==
    [frame EXCEPT
        !.dtypes = [j \in 1..Len(frame.dtypes) |->
                       IF j \in Range(cols) THEN "float64" ELSE frame.dtypes[j]],
        !.data = [r \in 1..Len(frame.data) |->
                    [j \in 1..Len(frame.columns) |->
                        IF j \in Range(cols)
                        THEN ScaleValue(sc,
                                 CHOOSE k \in 1..Len(cols) : cols[k] = j,
                                 frame.data[r][j])
                        ELSE frame.data[r][j]]]]

\* fit_transform on the test partition: the scaler refitted on test rows
TestScalerRefit(sc, frame, cols) == Fit(frame, cols)

\* scaler.transform(X_test[numeric_cols]) uses the fitted scaler as it is
TestScaler(sc, frame, cols) == sc

\* ----------------------------------------------------------- persistence

FileNames == <<"X_train_clean", "X_test_clean", "y_train_clean", "y_test_clean">>

NoFile == [exists |-> FALSE, header |-> <<>>, rows |-> <<>>]

\* DataFrame.to_csv(path, index=False): the header row and the data rows
FrameToCsv(frame) ==
    [exists |-> TRUE, header |-> frame.columns, rows |-> frame.data]

\* Series.to_csv(path, index=False): one column named after the series
SeriesToCsv(series) ==
    [exists |-> TRUE, header |-> <<series.name>>,
     rows |-> [r \in 1..Len(series.values) |-> <<series.values[r]>>]]

\* ------------------------------------------------------------------ state

VARIABLES
    raw,              \* ../data/raw_data.csv as read_csv parses it
    pc,               \* the statement the run is at
    error,            \* "" or the exception that ended the run at pc
    df, categorical_cols, le,
    X, y, X_train, X_test, y_train, y_test,
    numeric_cols, scaler,
    files,            \* the four files under ../data
    run,              \* the number of this run of the notebook
    prev,             \* the partitions and files the previous run ended with
    class_counts,     \* class-count study: the target's class counts
    strat             \* class-count study: the split's n_i and t_i

vars == <<raw, pc, error, df, categorical_cols, le, X, y, X_train, X_test,
          y_train, y_test, numeric_cols, scaler, files, run, prev,
          class_counts, strat>>

\* what a fresh kernel holds
notebook == <<df, categorical_cols, le, X, y, X_train, X_test, y_train,
              y_test, numeric_cols, scaler>>

study == <<class_counts, strat>>

\* the notebook is run at most MaxRuns times on the same input
MaxRuns == 2

NoPrev == [train |-> <<>>, test |-> <<>>, files |-> <<>>, notebook |-> <<>>]
NoStrat == [state |-> "off", n_i |-> <<>>, t_i |-> <<>>]

\* ------------------------------------------------------- the raw tables

TargetValues == {AttritedCustomer, "Existing Customer", ""}
\* the feature columns repeat a short cycle of values down the rows
FeatureCycles ==
    { [gender |-> <<"M", "F">>, card |-> <<"Gold", "Blue", "Silver", "Blue">>,
       age |-> <<40, 52, 47>>],
      [gender |-> <<"F", "F", "M">>, card |-> <<"Blue">>, age |-> <<52, 40>>] }
PadStyles == {<<0, 0>>, <<1, 0>>, <<0, 1>>}

Cycle(cyc, n) == [r \in 1..n |-> cyc[((r - 1) % Len(cyc)) + 1]]

Pad(name, style) ==
    [k \in 1..style[1] |-> Whitespace] \o <<name>>
        \o [k \in 1..style[2] |-> Whitespace]

RawColumn(name, dtype, values) ==
    [name |-> name, dtype |-> dtype, values |-> values]

\* the table read_csv returns for these columns: raw names, inferred dtypes
RawTable(cols, n) ==
    [header |-> [j \in 1..Len(cols) |-> cols[j].name],
     dtypes |-> [j \in 1..Len(cols) |-> cols[j].dtype],
     rows   |-> [r \in 1..n |-> [j \in 1..Len(cols) |-> cols[j].values[r]]]]

FeatureColumns(style, n, cycles) ==
    << RawColumn(Pad("Customer_Age", style), "int64", Cycle(cycles.age, n)),
       RawColumn(Pad("Gender", style), "object", Cycle(cycles.gender, n)),
       RawColumn(Pad("Card_Category", style), "object", Cycle(cycles.card, n)) >>

\* the tables of the dataset's schema, names padded in the style given
SchemaTable(style, n, target, cycles) ==
    RawTable(
        << RawColumn(Pad(CLIENTNUM, style), "int64", [r \in 1..n |-> 700 + r]),
           RawColumn(Pad(Attrition_Flag, style), "object", target) >>
        \o FeatureColumns(style, n, cycles)
        \o << RawColumn(Pad(NB_1, style), "float64", [r \in 1..n |-> 0]),
              RawColumn(Pad(NB_2, style), "float64", [r \in 1..n |-> 1]) >>,
        n)

\* tables whose header lacks some of the four named columns, or names the
\* identifier twice (a second identifier column, padded differently)
HeaderTable(style, present, twice, n) ==
    LET named(name, dtype, values) ==
            IF name \in present
            THEN <<RawColumn(Pad(name, style), dtype, values)>> ELSE <<>>
    IN  RawTable(
            named(CLIENTNUM, "int64", [r \in 1..n |-> 700 + r])
            \o named(Attrition_Flag, "object",
                     Cycle(<<"Existing Customer", AttritedCustomer, "">>, n))
            \o FeatureColumns(style, n,
                    [gender |-> <<"M", "F">>, card |-> <<"Blue">>,
                     age |-> <<40, 52, 47>>])
            \o named(NB_1, "float64", [r \in 1..n |-> 0])
            \o named(NB_2, "float64", [r \in 1..n |-> 1])
            \o (IF twice
                THEN <<RawColumn(<<Whitespace, Whitespace, CLIENTNUM>>, "int64",
                                 [r \in 1..n |-> 900 + r])>>
                ELSE <<>>),
            n)

RawTables ==
    { SchemaTable(<<1, 1>>, Len(target), target, cycles) :
        target \in UNION {[1..m -> TargetValues] : m \in 1..MaxRows},
        cycles \in FeatureCycles }
    \cup
    { HeaderTable(style, present, twice, MaxRows) :
        style \in PadStyles,
        present \in SUBSET {CLIENTNUM, NB_1, NB_2, Attrition_Flag},
        twice \in BOOLEAN }

\* ----------------------------------------------------------- the pipeline

Fresh ==
    /\ df = NoFrame /\ categorical_cols = <<>> /\ le = <<>>
    /\ X = NoFrame /\ y = NoSeries
    /\ X_train = NoFrame /\ X_test = NoFrame
    /\ y_train = NoSeries /\ y_test = NoSeries
    /\ numeric_cols = <<>> /\ scaler = Unfitted

Init ==
    /\ raw \in RawTables
    /\ pc = "load" /\ error = ""
    /\ Fresh
    /\ files = [f \in Range(FileNames) |-> NoFile]
    /\ run = 1 /\ prev = NoPrev
    /\ class_counts = <<>> /\ strat = NoStrat

\* pd.read_csv(...) and df.columns.str.strip()
ReadCsv(table) ==
    [columns |-> [j \in 1..Len(table.header) |-> Strip(table.header[j])],
     dtypes  |-> table.dtypes,
     index   |-> Iota(Len(table.rows)),
     data    |-> table.rows]

Load ==
    /\ pc = "load" /\ error = ""
    /\ df' = ReadCsv(raw)
    /\ pc' = "drop"
    /\ UNCHANGED <<raw, error, categorical_cols, le, X, y, X_train, X_test,
                   y_train, y_test, numeric_cols, scaler, files, run, prev, study>>

\* errors="ignore": a missing label is skipped
DropKeyErrorIgnored(frame) == FALSE

\* df.drop(columns=[...]) raises KeyError when a label is not a column
DropKeyError(frame) ==
    \E k \in 1..Len(drop_columns) : drop_columns[k] \notin Range(frame.columns)

\* only the first label dropped
DroppedFrameFirstLabel(frame) ==
    SelectColumns(frame,
        Positions([j \in 1..Len(frame.columns) |->
                      frame.columns[j] # drop_columns[1]]))

\* the frame without the columns that carry one of the labels
DroppedFrame(frame) ==
    SelectColumns(frame,
        Positions([j \in 1..Len(frame.columns) |->
                      frame.columns[j] \notin Range(drop_columns)]))

Drop ==
    /\ pc = "drop" /\ error = ""
    /\ ~DropKeyError(df)
    /\ df' = DroppedFrame(df)
    /\ pc' = "target"
    /\ UNCHANGED <<raw, error, categorical_cols, le, X, y, X_train, X_test,
                   y_train, y_test, numeric_cols, scaler, files, run, prev, study>>

DropFail ==
    /\ pc = "drop" /\ error = ""
    /\ DropKeyError(df)
    /\ error' = "KeyError"
    /\ UNCHANGED <<raw, pc, notebook, files, run, prev, study>>

\* df["Attrition_Flag"] raises KeyError when there is no such column
TargetKeyError(frame) == ColumnPositions(frame, <<Attrition_Flag>>) = <<>>

EncodeTarget ==
    /\ pc = "target" /\ error = ""
    /\ ~TargetKeyError(df)
    /\ df' = ApplyTarget(df, ColumnPositions(df, <<Attrition_Flag>>)[1])
    /\ pc' = "encode"
    /\ UNCHANGED <<raw, error, categorical_cols, le, X, y, X_train, X_test,
                   y_train, y_test, numeric_cols, scaler, files, run, prev, study>>

EncodeTargetFail ==
    /\ pc = "target" /\ error = ""
    /\ TargetKeyError(df)
    /\ error' = "KeyError"
    /\ UNCHANGED <<raw, pc, notebook, files, run, prev, study>>

EncodeCategorical ==
    /\ pc = "encode" /\ error = ""
    /\ LET cols == SelectDtypes(df, {"object"})
           out == EncodeColumns(df, cols, <<>>)
       IN  /\ categorical_cols' = cols
           /\ df' = out.df
           /\ le' = out.le
    /\ pc' = "separate"
    /\ UNCHANGED <<raw, error, X, y, X_train, X_test, y_train, y_test,
                   numeric_cols, scaler, files, run, prev, study>>

\* X = df: the target left among the features
FeaturesOfKeepingTarget(frame) == frame

\* X = df.drop("Attrition_Flag", axis=1)
FeaturesOf(frame) ==
    SelectColumns(frame,
        Positions([j \in 1..Len(frame.columns) |->
                      frame.columns[j] # <<Attrition_Flag>>]))

\* y = df["Attrition_Flag"]
TargetOf(frame) ==
    [name   |-> <<Attrition_Flag>>,
     index  |-> frame.index,
     values |-> Column(frame, ColumnPositions(frame, <<Attrition_Flag>>)[1])]

Separate ==
    /\ pc = "separate" /\ error = ""
    /\ X' = FeaturesOf(df)
    /\ y' = TargetOf(df)
    /\ pc' = "split"
    /\ UNCHANGED <<raw, error, df, categorical_cols, le, X_train, X_test,
                   y_train, y_test, numeric_cols, scaler, files, run, prev, study>>

Split ==
    /\ pc = "split" /\ error = ""
    /\ ~SplitValueError(ClassCounts(y.values))
    /\ \E seed \in Seeds :
        \E out \in {train_test_split(X, y, seed)} :
            /\ X_train' = out.X_train
            /\ X_test' = out.X_test
            /\ y_train' = out.y_train
            /\ y_test' = out.y_test
    /\ pc' = "scale_train"
    /\ UNCHANGED <<raw, error, df, categorical_cols, le, X, y, numeric_cols,
                   scaler, files, run, prev, study>>

SplitFail ==
    /\ pc = "split" /\ error = ""
    /\ SplitValueError(ClassCounts(y.values))
    /\ error' = "ValueError"
    /\ UNCHANGED <<raw, pc, notebook, files, run, prev, study>>

\* numeric_cols = ...; scaler = StandardScaler();
\* X_train[numeric_cols] = scaler.fit_transform(X_train[numeric_cols])
ScaleTrain ==
    /\ pc = "scale_train" /\ error = ""
    /\ LET cols == SelectDtypes(X, {"float64", "int64"})
           sc == Fit(X_train, cols)
       IN  /\ numeric_cols' = cols
           /\ scaler' = sc
           /\ X_train' = Transform(sc, X_train, cols)
    /\ pc' = "scale_test"
    /\ UNCHANGED <<raw, error, df, categorical_cols, le, X, y, X_test, y_train,
                   y_test, files, run, prev, study>>

\* X_test[numeric_cols] = scaler.transform(X_test[numeric_cols])
ScaleTest ==
    /\ pc = "scale_test" /\ error = ""
    /\ LET sc == TestScaler(scaler, X_test, numeric_cols)
       IN  /\ scaler' = sc
           /\ X_test' = Transform(sc, X_test, numeric_cols)
    /\ pc' = "write_X_train"
    /\ UNCHANGED <<raw, error, df, categorical_cols, le, X, y, X_train, y_train,
                   y_test, numeric_cols, files, run, prev, study>>

WriteXTrain ==
    /\ pc = "write_X_train" /\ error = ""
    /\ files' = [files EXCEPT ![FileNames[1]] = FrameToCsv(X_train)]
    /\ pc' = "write_X_test"
    /\ UNCHANGED <<raw, error, notebook, run, prev, study>>

WriteXTest ==
    /\ pc = "write_X_test" /\ error = ""
    /\ files' = [files EXCEPT ![FileNames[2]] = FrameToCsv(X_test)]
    /\ pc' = "write_y_train"
    /\ UNCHANGED <<raw, error, notebook, run, prev, study>>

WriteYTrain ==
    /\ pc = "write_y_train" /\ error = ""
    /\ files' = [files EXCEPT ![FileNames[3]] = SeriesToCsv(y_train)]
    /\ pc' = "write_y_test"
    /\ UNCHANGED <<raw, error, notebook, run, prev, study>>

WriteYTest ==
    /\ pc = "write_y_test" /\ error = ""
    /\ files' = [files EXCEPT ![FileNames[4]] = SeriesToCsv(y_test)]
    /\ pc' = "done"
    /\ UNCHANGED <<raw, error, notebook, run, prev, study>>

WritePcs == {"write_X_train", "write_X_test", "write_y_train", "write_y_test"}

\* the statement that follows each write in the cell
AfterWrite(p) ==
    CASE p = "write_X_train" -> "write_X_test"
      [] p = "write_X_test"  -> "write_y_train"
      [] p = "write_y_train" -> "write_y_test"
      [] p = "write_y_test"  -> "done"

\* each to_csv wrapped in try/except: a failed write is passed over and the
\* cell goes on to the next statement
WriteFailPassedOver ==
    /\ pc \in WritePcs /\ error = ""
    /\ pc' = AfterWrite(pc)
    /\ UNCHANGED <<raw, error, notebook, files, run, prev, study>>

\* to_csv raises when the destination cannot be written; nothing is retried
WriteFail ==
    /\ pc \in WritePcs /\ error = ""
    /\ error' = "OSError"
    /\ UNCHANGED <<raw, pc, notebook, files, run, prev, study>>

\* the operator runs the notebook again on the same input, in a fresh kernel
Rerun ==
    /\ pc = "done" /\ error = ""
    /\ run < MaxRuns
    /\ prev' = [train |-> X_train.index, test |-> X_test.index,
                files |-> files, notebook |-> notebook]
    /\ run' = run + 1
    /\ pc' = "load"
    /\ df' = NoFrame /\ categorical_cols' = <<>> /\ le' = <<>>
    /\ X' = NoFrame /\ y' = NoSeries
    /\ X_train' = NoFrame /\ X_test' = NoFrame
    /\ y_train' = NoSeries /\ y_test' = NoSeries
    /\ numeric_cols' = <<>> /\ scaler' = Unfitted
    /\ UNCHANGED <<raw, error, files, study>>

Next ==
    \/ Load \/ Drop \/ DropFail \/ EncodeTarget \/ EncodeTargetFail
    \/ EncodeCategorical \/ Separate \/ Split \/ SplitFail
    \/ ScaleTrain \/ ScaleTest
    \/ WriteXTrain \/ WriteXTest \/ WriteYTrain \/ WriteYTest \/ WriteFail
    \/ Rerun

Spec == Init /\ [][Next]_vars

\* ------------------------------------------------- the class-count study
\* The stratified split's allotment of rows to the partitions depends on the
\* target only through its class counts: the study applies the split's own
\* size and allotment computations to class counts the row tables above
\* cannot reach, the reference run's among them.

\* np.bincount of a target with neg rows of class 0 and pos rows of class 1
CountsOf(neg, pos) ==
    (IF neg > 0 THEN <<neg>> ELSE <<>>) \o (IF pos > 0 THEN <<pos>> ELSE <<>>)

CountInputs ==
    {CountsOf(ReferenceNegative, ReferencePositive)}
        \cup {CountsOf(neg, pos) : neg \in 0..MaxClassCount, pos \in 0..MaxClassCount}

CountsInit ==
    /\ raw = RawTable(<<>>, 0)
    /\ pc = "off" /\ error = ""
    /\ Fresh
    /\ files = [f \in Range(FileNames) |-> NoFile]
    /\ run = 1 /\ prev = NoPrev
    /\ class_counts \in CountInputs
    /\ strat = [NoStrat EXCEPT !.state = "split"]

CountsSplit ==
    /\ strat.state = "split"
    /\ ~SplitValueError(class_counts)
    /\ \E seed \in Seeds :
        \E alloc \in {Allocation(class_counts, RandomState(seed))} :
            strat' = [state |-> "done", n_i |-> alloc.n_i, t_i |-> alloc.t_i]
    /\ UNCHANGED <<raw, pc, error, notebook, files, run, prev, class_counts>>

CountsSplitFail ==
    /\ strat.state = "split"
    /\ SplitValueError(class_counts)
    /\ strat' = [strat EXCEPT !.state = "ValueError"]
    /\ UNCHANGED <<raw, pc, error, notebook, files, run, prev, class_counts>>

CountsNext == CountsSplit \/ CountsSplitFail

SpecCounts == CountsInit /\ [][CountsNext]_vars

\* ================================================================= claims

Abs(a) == IF a < 0 THEN -a ELSE a

PostSplitPcs == {"scale_train", "scale_test", "done"} \cup WritePcs

PostSplit == pc \in PostSplitPcs

RowIds == 1..Len(raw.rows)

\* a and b list every element of S once, between them
IsPartition(a, b, S) ==
    /\ Range(a) \cap Range(b) = {}
    /\ Range(a) \cup Range(b) = S
    /\ Len(a) + Len(b) = Cardinality(S)

\* the file named FileNames[k] has been written by this run
Written(k) ==
    \/ pc = "done"
    \/ \E i \in 1..4 :
         /\ i > k
         /\ pc = <<"write_X_train", "write_X_test",
                   "write_y_train", "write_y_test">>[i]

\* C1: from the split on, through scaling and the four writes, the train and
\* the test rows (features and labels alike) are disjoint and together are
\* every row of the encoded table, one data row per row identity; the files
\* written hold exactly those rows.
C1_TruePartition ==
    PostSplit =>
        /\ IsPartition(X_train.index, X_test.index, RowIds)
        /\ IsPartition(y_train.index, y_test.index, RowIds)
        /\ Range(df.index) = RowIds
        /\ Len(X_train.data) = Len(X_train.index)
        /\ Len(X_test.data) = Len(X_test.index)
        /\ Len(y_train.values) = Len(y_train.index)
        /\ Len(y_test.values) = Len(y_test.index)
        /\ Written(1) => Len(files[FileNames[1]].rows) = Len(X_train.index)
        /\ Written(2) => Len(files[FileNames[2]].rows) = Len(X_test.index)
        /\ Written(3) => Len(files[FileNames[3]].rows) = Len(y_train.index)
        /\ Written(4) => Len(files[FileNames[4]].rows) = Len(y_test.index)

C1_Witness ==
    /\ pc = "done"
    /\ Len(raw.rows) >= 6
    /\ Len(Classes(y.values)) = 2
    /\ Len(X_test.index) = 2

\* the least integer that is at least test_size * n
CeilOfFraction(n) ==
    CHOOSE k \in 0..n :
        /\ k * test_size_den >= n * test_size_num
        /\ (k - 1) * test_size_den < n * test_size_num

\* C2 (as claimed): each class's number of test rows differs from
\* test_size * class_count by at most one row.
C2_WithinOneRowOfTestSize ==
    strat.state = "done" =>
        \A i \in 1..Len(class_counts) :
            Abs(strat.t_i[i] * test_size_den - class_counts[i] * test_size_num)
                <= test_size_den

\* C2 (amended): each class's number of test rows differs by less than one
\* row from class_count * n_test / n, its share of the n_test =
\* ceil(test_size * n) rows of the test partition, and so by less than two
\* rows from test_size * class_count.
C2_WithinOneRowOfPartitionShare ==
    strat.state = "done" =>
        LET n == SumSeq(class_counts)
        IN  \A i \in 1..Len(class_counts) :
                /\ Abs(strat.t_i[i] * n - class_counts[i] * CeilOfFraction(n)) < n
                /\ Abs(strat.t_i[i] * test_size_den
                        - class_counts[i] * test_size_num) < 2 * test_size_den

C2_Witness ==
    /\ strat.state = "done"
    /\ class_counts = <<19, 2>>
    /\ strat.t_i = <<5, 0>>

\* C6: the reference table's class counts, 8,500 negative and 1,627 positive,
\* split into 6,799 / 1,302 train rows and 1,701 / 325 test rows.
C6_ReferenceCounts ==
    (strat.state # "split"
        /\ class_counts = <<ReferenceNegative, ReferencePositive>>) =>
        /\ strat.state = "done"
        /\ strat.n_i = <<6799, 1302>>
        /\ strat.t_i = <<1701, 325>>

C6_Witness ==
    /\ strat.state = "done"
    /\ SumSeq(class_counts) = 10127
    /\ class_counts = <<8500, 1627>>

\* ---- scaling

\* the sum over the rows (row ids) of the values, or of their squares, of
\* column j of the unscaled features X
RECURSIVE SumOfRows(_, _, _)
SumOfRows(rows, j, squared) ==
    IF rows = <<>> THEN 0
    ELSE (IF squared THEN X.data[Head(rows)][j] * X.data[Head(rows)][j]
                     ELSE X.data[Head(rows)][j])
            + SumOfRows(Tail(rows), j, squared)

\* (x - mean) / std with the mean and standard deviation of the train rows
ScaledByTrain(x, j) ==
    LET m == Len(X_train.index)
        S == SumOfRows(X_train.index, j, FALSE)
        Q == SumOfRows(X_train.index, j, TRUE)
    IN  [num |-> m * x - S, den2 |-> IF m * Q - S * S = 0 THEN m * m ELSE m * Q - S * S]

\* C3: the scaler is unfitted until the split has been made; once fitted its
\* per-column statistics are those of the train rows alone, they are the same
\* after the test partition has been transformed, and train and test values
\* are both scaled with them.
C3_TrainOnlyStatistics ==
    /\ pc \in {"load", "drop", "target", "encode", "separate", "split",
               "scale_train"} => scaler = Unfitted
    /\ pc \in {"scale_test", "done"} \cup WritePcs =>
        /\ numeric_cols = Iota(Len(X.columns))
        /\ scaler.n = Len(X_train.index)
        /\ \A k \in 1..Len(numeric_cols) :
            /\ scaler.sum[k] = SumOfRows(X_train.index, numeric_cols[k], FALSE)
            /\ scaler.sumsq[k] = SumOfRows(X_train.index, numeric_cols[k], TRUE)
        /\ \A i \in 1..Len(X_train.index) : \A j \in 1..Len(X.columns) :
            X_train.data[i][j] = ScaledByTrain(X.data[X_train.index[i]][j], j)
    /\ pc \in {"done"} \cup WritePcs =>
        \A i \in 1..Len(X_test.index) : \A j \in 1..Len(X.columns) :
            X_test.data[i][j] = ScaledByTrain(X.data[X_test.index[i]][j], j)

\* a run whose test rows, scaled on their own, would have come out otherwise
C3_Witness ==
    /\ pc = "done"
    /\ Len(X_test.index) >= 2
    /\ \E j \in 1..Len(X.columns) :
        /\ \E i \in 1..Len(X_test.index) : X_test.data[i][j].num # 0
        /\ SumOfRows(X_test.index, j, FALSE) * Len(X_train.index)
              # SumOfRows(X_train.index, j, FALSE) * Len(X_test.index)

\* ---- headers of the persisted files

\* C4: no file under ../data has a column that, stripped or not, carries one
\* of the three dropped names.
C4_DroppedColumnsNotPersisted ==
    \A f \in Range(FileNames) :
        files[f].exists =>
            \A j \in 1..Len(files[f].header) :
                /\ files[f].header[j] \notin Range(drop_columns)
                /\ Strip(files[f].header[j]) \notin Range(drop_columns)

\* every file written, from a raw header whose dropped names were padded
C4_Witness ==
    /\ pc = "done"
    /\ \A k \in 1..Len(drop_columns) :
        \E j \in 1..Len(raw.header) :
            /\ raw.header[j] # drop_columns[k]
            /\ Strip(raw.header[j]) = drop_columns[k]

\* C5: a persisted feature file has no target column; a persisted label file
\* has the target column and no other.
C5_TargetOnlyInLabelFiles ==
    /\ \A k \in {1, 2} :
        files[FileNames[k]].exists =>
            /\ Len(files[FileNames[k]].header) >= 1
            /\ \A j \in 1..Len(files[FileNames[k]].header) :
                Strip(files[FileNames[k]].header[j]) # <<Attrition_Flag>>
            /\ \A r \in 1..Len(files[FileNames[k]].rows) :
                Len(files[FileNames[k]].rows[r]) = Len(files[FileNames[k]].header)
    /\ \A k \in {3, 4} :
        files[FileNames[k]].exists =>
            /\ files[FileNames[k]].header = << <<Attrition_Flag>> >>
            /\ \A r \in 1..Len(files[FileNames[k]].rows) :
                Len(files[FileNames[k]].rows[r]) = 1

C5_Witness ==
    /\ pc = "done"
    /\ \A f \in Range(FileNames) : files[f].exists
    /\ Len(files[FileNames[1]].header) = 3
    /\ Len(files[FileNames[3]].rows) >= 4

\* ---- two runs

StrippedHeader == [j \in 1..Len(raw.header) |-> Strip(raw.header[j])]

SomeDropColumnAbsent ==
    \E k \in 1..Len(drop_columns) : drop_columns[k] \notin Range(StrippedHeader)

\* C8: when a name of the drop list is not in the stripped header the run
\* gets no further than the drop statement, which can only raise; it raises
\* KeyError with every column still in df, no later result is computed and
\* no file is written.
C8_MissingDropColumnIsFatal ==
    SomeDropColumnAbsent =>
        /\ pc \in {"load", "drop"}
        /\ error \in {"", "KeyError"}
        /\ (pc = "drop" /\ error = "") => (ENABLED DropFail /\ ~ENABLED Drop)
        /\ pc = "drop" => df.columns = StrippedHeader
        /\ error = "KeyError" => ~ENABLED Next
        /\ X = NoFrame /\ y = NoSeries /\ X_train = NoFrame /\ X_test = NoFrame
        /\ scaler = Unfitted
        /\ \A f \in Range(FileNames) : files[f] = NoFile

\* the drop raised although some of the listed columns were there to drop
C8_Witness ==
    /\ SomeDropColumnAbsent
    /\ pc = "drop" /\ error = "KeyError"
    /\ \E k \in 1..Len(drop_columns) : drop_columns[k] \in Range(df.columns)

\* ---- target encoding

HasTarget == <<Attrition_Flag>> \in Range(StrippedHeader)

RawTarget(r) ==
    raw.rows[r][CHOOSE j \in 1..Len(raw.header) :
                    StrippedHeader[j] = <<Attrition_Flag>>]

Label(r) == IF RawTarget(r) = "Attrited Customer" THEN 1 ELSE 0

\* C9: on a table that has the target column the target statement does not
\* raise, whatever the values; from then on the target of every row, in df,
\* in y, in the partitions and in the label files, is 1 when the row's raw
\* value is "Attrited Customer" and 0 otherwise.
C9_TargetIsTheRuleOfTheRawValue ==
    /\ (HasTarget /\ pc = "target") => error = ""
    /\ (HasTarget /\ pc = "target" /\ error = "") => ENABLED EncodeTarget
    /\ pc \in {"encode", "separate", "split"} \cup PostSplitPcs =>
        \A r \in RowIds :
            df.data[r][ColumnPositions(df, <<Attrition_Flag>>)[1]] = Label(r)
    /\ pc \in {"split"} \cup PostSplitPcs =>
        \A r \in RowIds : y.values[r] = Label(r)
    /\ PostSplit =>
        /\ \A i \in 1..Len(y_train.index) :
            y_train.values[i] = Label(y_train.index[i])
        /\ \A i \in 1..Len(y_test.index) :
            y_test.values[i] = Label(y_test.index[i])
        /\ Written(3) =>
            files[FileNames[3]].rows =
                [i \in 1..Len(y_train.index) |-> <<Label(y_train.index[i])>>]
        /\ Written(4) =>
            files[FileNames[4]].rows =
                [i \in 1..Len(y_test.index) |-> <<Label(y_test.index[i])>>]

C9_Witness ==
    /\ pc = "done"
    /\ \E r \in RowIds : RawTarget(r) = ""
    /\ \E r \in RowIds : RawTarget(r) = "Existing Customer"
    /\ \E i \in 1..Len(y_test.index) : RawTarget(y_test.index[i]) = AttritedCustomer

\* ---- categorical encoding

PostEncode == pc \in {"separate", "split"} \cup PostSplitPcs

\* the raw columns of dtype object that are features
RawCategorical ==
    {j \in 1..Len(raw.header) :
        /\ raw.dtypes[j] = "object"
        /\ StrippedHeader[j] # <<Attrition_Flag>>
        /\ StrippedHeader[j] \notin Range(drop_columns)}

RawValues(j) == {raw.rows[r][j] : r \in RowIds}

\* C10: after the encoding statement, and before any partition exists, every
\* categorical feature column holds for each row the number of distinct
\* values of that column that sort before the row's raw value: the codes are
\* 0..k-1 in sorted order and come from that column's values alone.
C10_CodesAreSortedRanks ==
    PostEncode =>
        /\ pc = "separate" => (X_train = NoFrame /\ X_test = NoFrame)
        /\ \A j \in RawCategorical :
            LET jd == ColumnPositions(df, StrippedHeader[j])[1]
            IN  /\ df.dtypes[jd] = "int64"
                /\ \A r \in RowIds :
                    df.data[r][jd] =
                        Cardinality({v \in RawValues(j) :
                            StrRank(v) < StrRank(raw.rows[r][j])})
                /\ {df.data[r][jd] : r \in RowIds}
                        = 0..(Cardinality(RawValues(j)) - 1)

\* two categorical columns of different vocabularies encoded by the one encoder
C10_Witness ==
    /\ pc = "separate"
    /\ Cardinality(RawCategorical) = 2
    /\ \E j \in RawCategorical : Cardinality(RawValues(j)) = 3
    /\ \E j \in RawCategorical : Cardinality(RawValues(j)) = 2
    /\ Len(le) = 3

\* ---- the four writes

\* what the k-th to_csv of this run writes
ToCsvOf(k) ==
    CASE k = 1 -> FrameToCsv(X_train)
      [] k = 2 -> FrameToCsv(X_test)
      [] k = 3 -> SeriesToCsv(y_train)
      [] k = 4 -> SeriesToCsv(y_test)

\* the files under ../data when this run began
FilesAtStart ==
    IF run = 1 THEN [f \in Range(FileNames) |-> NoFile] ELSE prev.files

\* the k-th write statement takes a step
WriteStep(k) ==
    /\ pc = <<"write_X_train", "write_X_test",
              "write_y_train", "write_y_test">>[k]
    /\ vars' # vars

\* C11: the files are written in the order X_train_clean, X_test_clean,
\* y_train_clean, y_test_clean, one file per statement: at every point of a
\* run the files of the writes already passed hold this run's partitions and
\* the others are as they were when the run began.  A write statement either
\* writes its own file only and moves to the next statement, or raises and
\* leaves every file as it is; after an error no statement runs (no retry,
\* no later write), and the run is at "done" only without an error and with
\* all four files holding this run's partitions.
C11_WritesInOrderAndFatal ==
    /\ [](/\ \A k \in 1..4 :
               files[FileNames[k]] =
                   IF pc \in WritePcs \cup {"done"} /\ Written(k)
                   THEN ToCsvOf(k) ELSE FilesAtStart[FileNames[k]]
          /\ error = "OSError" => pc \in WritePcs
          /\ error # "" => ~ENABLED Next
          /\ pc = "done" =>
               /\ error = ""
               /\ \A k \in 1..4 :
                   files[FileNames[k]].exists /\ files[FileNames[k]] = ToCsvOf(k))
    /\ [][/\ error = ""
          /\ files' # files => pc \in WritePcs
          /\ \A k \in 1..4 :
               WriteStep(k) =>
                   \/ /\ error' = "OSError" /\ pc' = pc /\ files' = files
                   \/ /\ error' = "" /\ pc' = AfterWrite(pc)
                      /\ files' = [files EXCEPT ![FileNames[k]] = ToCsvOf(k)]]_vars

\* the first run stopped by the third write: two files on disk, two not
C11_Witness ==
    /\ run = 1
    /\ pc = "write_y_train" /\ error = "OSError"
    /\ files[FileNames[1]].exists /\ files[FileNames[2]].exists
    /\ ~files[FileNames[3]].exists /\ ~files[FileNames[4]].exists
    /\ Len(files[FileNames[1]].rows) >= 2

\* ---- features and labels, row by row

\* the encoded, unscaled value of the feature column j of X for raw row r:
\* a categorical value's rank among its column's values, a number as it is
EncodedRaw(r, j) ==
    LET jr == CHOOSE c \in 1..Len(raw.header) : StrippedHeader[c] = X.columns[j]
    IN  IF raw.dtypes[jr] = "object"
        THEN Cardinality({v \in RawValues(jr) :
                            StrRank(v) < StrRank(raw.rows[r][jr])})
        ELSE raw.rows[r][jr]

\* the row of a persisted feature file that comes from raw row r
FeatureRowOf(r) ==
    [j \in 1..Len(X.columns) |-> ScaledByTrain(EncodedRaw(r, j), j)]

\* the feature file k and the label file k + 2 hold, position by position,
\* the features and the label of the raw rows ids
PairedFiles(k, ids) ==
    /\ Len(files[FileNames[k]].rows) = Len(ids)
    /\ Len(files[FileNames[k + 2]].rows) = Len(ids)
    /\ \A i \in 1..Len(ids) :
        /\ files[FileNames[k]].rows[i] = FeatureRowOf(ids[i])
        /\ files[FileNames[k + 2]].rows[i] = <<Label(ids[i])>>

\* C12: X and y list the raw rows in the order of the table; from the split
\* on, the features and the labels of a partition carry the same row ids in
\* the same order, one data row and one label per id, before and after the
\* scaling; and once both files of a partition are written, the i-th row of
\* the feature file is the encoded and scaled features, and the i-th row of
\* the label file the label, of one and the same raw row.
C12_FeaturesAndLabelsPaired ==
    /\ pc \in {"split"} \cup PostSplitPcs =>
        /\ X.index = Iota(Len(raw.rows)) /\ y.index = X.index
        /\ \A r \in RowIds : \A j \in 1..Len(X.columns) :
            X.data[r][j] = EncodedRaw(r, j)
    /\ PostSplit =>
        /\ X_train.index = y_train.index
        /\ X_test.index = y_test.index
        /\ Len(X_train.data) = Len(X_train.index)
        /\ Len(y_train.values) = Len(X_train.index)
        /\ Len(X_test.data) = Len(X_test.index)
        /\ Len(y_test.values) = Len(X_test.index)
        /\ pc = "scale_train" =>
            /\ \A i \in 1..Len(X_train.index) :
                X_train.data[i] = X.data[X_train.index[i]]
            /\ \A i \in 1..Len(X_test.index) :
                X_test.data[i] = X.data[X_test.index[i]]
        /\ pc # "scale_train" =>
            \A i \in 1..Len(X_train.index) :
                X_train.data[i] = FeatureRowOf(X_train.index[i])
        /\ (Written(1) /\ Written(3)) => PairedFiles(1, X_train.index)
        /\ (Written(2) /\ Written(4)) => PairedFiles(2, X_test.index)

\* all four files written by a run whose split shuffled the train rows out
\* of the order of the table, the train rows differing in features and in
\* label
C12_Witness ==
    /\ pc = "done"
    /\ Len(X_train.index) >= 4
    /\ \E i \in 1..(Len(X_train.index) - 1) :
        X_train.index[i] > X_train.index[i + 1]
    /\ \E i, k \in 1..Len(X_train.index) :
        /\ files[FileNames[3]].rows[i] # files[FileNames[3]].rows[k]
        /\ files[FileNames[1]].rows[i] # files[FileNames[1]].rows[k]
    /\ Len(X_test.index) >= 2

====
